---- MODULE Spec2Model ----
(***************************************************************************)
(* A model of dch_wrapper.py: one run of DchWrapper.run, from the check    *)
(* for the dch command to the two-step dch invocation.                     *)
(*                                                                         *)
(* Text is a sequence of one-character strings, so that strip, lstrip,     *)
(* lower, split, join and the substring test are computed as Python        *)
(* computes them.  A character outside ASCII is written as one element     *)
(* naming it ("U+662F" is the character of the answer "shi", yes).         *)
(* An Optional value is a sequence of length 0 (None) or 1.                *)
(***************************************************************************)
EXTENDS Integers, Sequences, FiniteSets

\* ------------------------------------------------------------------ bounds

\* The longest commit history git log reports.
MaxCommits == 2

\* The most dirty files git status reports.
MaxStatusLines == 2

\* ---------------------------------------------------------- Python values

None == <<>>

Some(v) == <<v>>

IsNone(o) == o = <<>>

Value(o) == o[1]

\* Truthiness of an Optional[str]: None and "" are both falsy.
Truthy(o) == o # <<>> /\ o[1] # <<>>

\* ------------------------------------------------------------ str methods

IsSpace(c) == c \in {" ", "\n", "\t"}

RECURSIVE lstrip_chars(_, _)
lstrip_chars(s, cs) ==
    IF s # <<>> /\ Head(s) \in cs THEN lstrip_chars(Tail(s), cs) ELSE s

RECURSIVE rstrip_chars(_, _)
rstrip_chars(s, cs) ==
    IF s # <<>> /\ s[Len(s)] \in cs
    THEN rstrip_chars(SubSeq(s, 1, Len(s) - 1), cs)
    ELSE s

strip(s) == rstrip_chars(lstrip_chars(s, {" ", "\n", "\t"}), {" ", "\n", "\t"})

LowerChar(c) ==
    CASE c = "Y" -> "y"
      [] c = "E" -> "e"
      [] c = "S" -> "s"
      [] c = "N" -> "n"
      [] OTHER -> c

lower(s) == [i \in 1..Len(s) |-> LowerChar(s[i])]

RECURSIVE split(_, _)
split(s, sep) ==
    IF \E i \in 1..Len(s) : s[i] = sep
    THEN LET i == CHOOSE k \in 1..Len(s) :
                      s[k] = sep /\ \A j \in 1..(k - 1) : s[j] # sep
         IN  <<SubSeq(s, 1, i - 1)>> \o split(SubSeq(s, i + 1, Len(s)), sep)
    ELSE <<s>>

RECURSIVE join(_, _)
join(lines, sep) ==
    IF lines = <<>> THEN <<>>
    ELSE IF Len(lines) = 1 THEN lines[1]
    ELSE lines[1] \o sep \o join(Tail(lines), sep)

\* Python's  pat in s  for strings.
contains(s, pat) ==
    \E i \in 1..(Len(s) - Len(pat) + 1) : SubSeq(s, i, i + Len(pat) - 1) = pat

\* The elements of a sequence that satisfy Keep, in order.
RECURSIVE SelectLines(_)
SelectLines(lines) ==
    IF lines = <<>> THEN <<>>
    ELSE (IF strip(Head(lines)) # <<>> THEN <<strip(Head(lines))>> ELSE <<>>)
         \o SelectLines(Tail(lines))

\* --------------------------------------------------------------- literals

DefaultVersion == <<"1", ".", "0", ".", "0">>

UnknownName == <<"U", "n", "k", "n", "o", "w", "n">>

UnknownEmail == <<"u", "n", "k", "n", "o", "w", "n", "@",
                  "e", "x", "a", "m", "p", "l", "e", ".", "c", "o", "m">>

ChangelogPath == <<"d", "e", "b", "i", "a", "n", "/",
                   "c", "h", "a", "n", "g", "e", "l", "o", "g">>

\* The placeholder texts of get_git_changes_since_last_tag: each is one
\* element, a text without blanks or line breaks.
NoChangesText == <<"<no change records>">>

LogFailedText == <<"<cannot get change records>">>

AcceptedAnswers == {<<"y">>, <<"y", "e", "s">>, <<"U+662F">>}

\* ----------------------------------------------------------------- inputs

\* The message argument: absent, empty, one line, two lines.
Messages ==
    {None, Some(<<>>), Some(<<"f", "i", "x">>), Some(<<"a", "\n", "b">>)}

PresetEmail == <<"m", "@", "x">>

PresetName == <<"F">>

\* os.environ before the run, restricted to the two identity variables:
\* each absent, set to the empty string, or set to a value.
Environments ==
    [DEBEMAIL : {None, Some(<<>>), Some(PresetEmail)},
     DEBFULLNAME : {None, Some(<<>>), Some(PresetName)}]

\* What a git query gives: None when git exits non-zero
\* (CalledProcessError), else its standard output.
GitNameOutputs == {None, Some(<<"A", " ", "B", "\n">>)}

GitEmailOutputs == {None, Some(<<"a", "@", "b", "\n">>)}

\* The latest reachable tag as git describe prints it.
GitTagOutputs ==
    {None,
     Some(<<"v", "1", ".", "2", "\n">>),
     Some(<<"1", ".", "2", "\n">>),
     Some(<<"v", "v", "1", ".", "2", "\n">>)}

\* Dirty files of the working tree: the changelog, another file, and a
\* file whose path only begins like the changelog's.
DirtyFiles ==
    {[code |-> <<" ", "M">>, path |-> ChangelogPath],
     [code |-> <<" ", "M">>, path |-> <<"a", ".", "p", "y">>],
     [code |-> <<" ", "M">>, path |-> ChangelogPath \o <<".", "u", "p">>]}

\* The working trees git status can report: up to MaxStatusLines
\* distinct dirty files.
WorkingTrees ==
    {w \in UNION {[1..n -> DirtyFiles] : n \in 0..MaxStatusLines} :
        \A i, j \in 1..Len(w) : i # j => w[i] # w[j]}

\* Lines typed at the confirmation prompt.
Answers ==
    {<<>>, <<"y">>, <<" ", "Y", " ">>, <<"Y", "E", "S">>, <<"U+662F">>,
     <<"n">>, <<"y", "e">>}

\* Lines typed at the version prompt.
VersionEntries == {<<>>, <<" ">>, <<"2", ".", "0">>, <<" ", "3", " ">>}

Subjects == {<<"a">>, <<"b">>, <<>>}

Commits == [subject : Subjects, merge : BOOLEAN]

\* Commit histories, newest first; the root commit is no merge.
Histories ==
    {h \in UNION {[1..n -> Commits] : n \in 1..MaxCommits} :
        ~h[Len(h)].merge}

\* What input() gives at a prompt: a line of S, Ctrl-C, or end of input.
Keyboard(S) ==
    {[kind |-> "line", text |-> t] : t \in S}
    \cup {[kind |-> k, text |-> <<>>] : k \in {"KeyboardInterrupt", "EOFError"}}

\* How an invocation of dch ends.
DchOutcomes == {"ok", "CalledProcessError", "KeyboardInterrupt"}

\* ------------------------------------------------------------------ state

VARIABLES
    pc,                 \* the step of DchWrapper.run about to execute
    dry_run,            \* self.dry_run
    custom_message,     \* args.message
    git_on_path,        \* whether the git executable can be started
    environ,            \* os.environ: DEBEMAIL, DEBFULLNAME
    git_config,         \* what git config printed for setup, while in scope
    dch_found,          \* "unknown", "yes", "no": shutil.which('dch')
    status_query,       \* "none", "ok", "failed": git status --porcelain
    dirty,              \* the dirty files git status reported
    changelog_modified, \* check_git_status's local of that name
    prompted,           \* the confirmation prompt was shown
    response,           \* the line typed at the confirmation prompt
    interrupt_at,       \* "none", "confirm", "version", "dch"
    debian_dir,         \* "unknown", "yes", "no": debian_dir.exists()
    tag_query,          \* "none", "ok", "failed": git describe
    latest_tag,         \* git describe's output, stripped
    version_entry,      \* the line typed at the version prompt
    version,            \* run_dch's local of that name
    log_query,          \* "none", "ok", "failed": git log
    history,            \* the commits git log walked, newest first
    tag_at,             \* index in history of the tagged commit, 0: no tag
    changelog_lines,    \* run_dch's local of that name
    calls,              \* the dch invocations started, in order
    result              \* "running", "success", "failure", "crash"

vars ==
    <<pc, dry_run, custom_message, git_on_path, environ, git_config, dch_found,
      status_query, dirty, changelog_modified, prompted, response,
      interrupt_at, debian_dir, tag_query, latest_tag, version_entry,
      version,
      log_query, history, tag_at, changelog_lines, calls, result>>

inputs == <<dry_run, custom_message, git_on_path>>

status_vars ==
    <<status_query, dirty, changelog_modified, prompted, response>>

version_vars == <<tag_query, latest_tag, version_entry, version>>

log_vars == <<log_query, history, tag_at, changelog_lines>>

Init ==
    /\ pc = "check_dch"
    /\ dry_run \in BOOLEAN
    /\ custom_message \in Messages
    /\ git_on_path \in BOOLEAN
    /\ environ \in Environments
    /\ git_config = None
    /\ dch_found = "unknown"
    /\ status_query = "none"
    /\ dirty = <<>>
    /\ changelog_modified = FALSE
    /\ prompted = FALSE
    /\ response = None
    /\ interrupt_at = "none"
    /\ debian_dir = "unknown"
    /\ tag_query = "none"
    /\ latest_tag = None
    /\ version_entry = None
    /\ version = <<>>
    /\ log_query = "none"
    /\ history = <<>>
    /\ tag_at = 0
    /\ changelog_lines = <<>>
    /\ calls = <<>>
    /\ result = "running"

\* run returns ok (True or False), or an exception nobody catches ends
\* the process with a traceback.
Return(r) ==
    /\ pc' = "done"
    /\ result' = r

\* ----------------------------------------------------- check_dch_available

\* Step 1 of run: without dch on the search path the run fails at once.
CheckDchAvailable ==
    /\ pc = "check_dch"
    /\ \E found \in BOOLEAN :
          /\ dch_found' = (IF found THEN "yes" ELSE "no")
          /\ IF found
             THEN pc' = "setup_env" /\ result' = result
             ELSE Return("failure")
    /\ UNCHANGED <<inputs, environ, git_config, status_vars, interrupt_at,
                   debian_dir, version_vars, log_vars, calls>>

\* ------------------------------------------------ setup_environment_variables

\* get_git_author_info: each query falls back to its placeholder when
\* git exits non-zero.
GitAuthorInfo(name_out, email_out) ==
    [name  |-> IF IsNone(name_out) THEN UnknownName
               ELSE strip(Value(name_out)),
     email |-> IF IsNone(email_out) THEN UnknownEmail
               ELSE strip(Value(email_out))]

\* The test  not debemail or not debfullname.
NeedsAuthorInfo(env) == ~Truthy(env.DEBEMAIL) \/ ~Truthy(env.DEBFULLNAME)

\* EnvironAfterSetup with both variables assigned whenever the author
\* information was fetched, whichever was missing.
EnvironAfterSetup_Both(env, info) ==
    [DEBEMAIL |-> Some(info.email), DEBFULLNAME |-> Some(info.name)]

\* os.environ after the two assignments.
EnvironAfterSetup(env, info) ==
    [DEBEMAIL    |-> IF ~Truthy(env.DEBEMAIL) THEN Some(info.email)
                     ELSE env.DEBEMAIL,
     DEBFULLNAME |-> IF ~Truthy(env.DEBFULLNAME) THEN Some(info.name)
                     ELSE env.DEBFULLNAME]

\* Step 2 of run.  git is started only when a variable is missing; when
\* it cannot be started, FileNotFoundError ends the process.
SetupEnvironmentVariables ==
    /\ pc = "setup_env"
    /\ IF ~NeedsAuthorInfo(environ)
       THEN /\ pc' = "check_git_status"
            /\ UNCHANGED <<environ, git_config, result>>
       ELSE IF ~git_on_path
       THEN /\ Return("crash")
            /\ UNCHANGED <<environ, git_config>>
       ELSE \E name_out \in GitNameOutputs, email_out \in GitEmailOutputs :
               /\ git_config' = Some([name |-> name_out, email |-> email_out])
               /\ environ' = EnvironAfterSetup(environ,
                                               GitAuthorInfo(name_out, email_out))
               /\ pc' = "check_git_status"
               /\ result' = result
    /\ UNCHANGED <<inputs, dch_found, status_vars, interrupt_at, debian_dir,
                   version_vars, log_vars, calls>>

\* ----------------------------------------------------------- check_git_status

\* What git status --porcelain prints for a working tree: one line per
\* dirty file, the two status letters, a blank, the path.
StatusOutput(w) ==
    join([i \in 1..Len(w) |-> w[i].code \o <<" ">> \o w[i].path \o <<"\n">>],
         <<>>)

\* ChangelogModified looking at the first status line only.
ChangelogModified_FirstLine(status) ==
    LET line == split(status, "\n")[1]
    IN  strip(line) # <<>> /\ contains(line, ChangelogPath)

\* The loop that looks for the changelog among the status lines.
ChangelogModified(status) ==
    \E i \in 1..Len(split(status, "\n")) :
        LET line == split(status, "\n")[i]
        IN  strip(line) # <<>> /\ contains(line, ChangelogPath)

\* The test of the answer typed at the confirmation prompt.
IsAffirmative(answer) == lower(strip(answer)) \in AcceptedAnswers

\* Step 3 of run, a failed status query.
CheckGitStatusFailed ==
    /\ status_query' = "failed"
    /\ pc' = "run_dch"
    /\ UNCHANGED <<dirty, changelog_modified, prompted, response,
                   interrupt_at, result>>

\* Step 3 of run, a status query that printed the tree w; typed is what
\* the user does at the prompt, should it be shown.
CheckGitStatusOf(w, typed) ==
    LET status == strip(StatusOutput(w))
    IN  /\ status_query' = "ok"
        /\ dirty' = w
        /\ IF status = <<>>
           THEN /\ pc' = "run_dch"
                /\ UNCHANGED <<changelog_modified, prompted, response,
                               interrupt_at, result>>
           ELSE IF ChangelogModified(status)
           THEN /\ changelog_modified' = TRUE
                /\ Return("failure")
                /\ UNCHANGED <<prompted, response, interrupt_at>>
           ELSE /\ changelog_modified' = FALSE
                /\ prompted' = TRUE
                /\ CASE typed.kind = "KeyboardInterrupt" ->
                          /\ interrupt_at' = "confirm"
                          /\ Return("failure")
                          /\ UNCHANGED response
                     [] typed.kind = "EOFError" ->
                          /\ Return("crash")
                          /\ UNCHANGED <<response, interrupt_at>>
                     [] OTHER ->
                          /\ response' = Some(typed.text)
                          /\ UNCHANGED interrupt_at
                          /\ IF IsAffirmative(typed.text)
                             THEN pc' = "run_dch" /\ result' = result
                             ELSE Return("failure")

CheckGitStatus ==
    /\ pc = "check_git_status"
    /\ git_config' = None
    /\ IF ~git_on_path
       THEN /\ Return("crash")
            /\ UNCHANGED <<status_vars, interrupt_at>>
       ELSE \/ CheckGitStatusFailed
            \/ \E w \in WorkingTrees :
                  \E typed \in Keyboard(Answers) :
                     CheckGitStatusOf(w, typed)
    /\ UNCHANGED <<inputs, environ, dch_found, debian_dir, version_vars,
                   log_vars, calls>>

\* -------------------------------------------------------------------- run_dch

\* Step 4 of run begins: run_dch needs the debian directory.
RunDch ==
    /\ pc = "run_dch"
    /\ \E exists \in BOOLEAN :
          /\ debian_dir' = (IF exists THEN "yes" ELSE "no")
          /\ IF exists
             THEN pc' = "get_version" /\ result' = result
             ELSE Return("failure")
    /\ UNCHANGED <<inputs, environ, git_config, dch_found, status_vars,
                   interrupt_at, version_vars, log_vars, calls>>

\* The default version of get_latest_version_from_git_tag, from what
\* git describe gave.
DefaultVersionOf(tag_out) ==
    IF IsNone(tag_out) THEN DefaultVersion
    ELSE IF strip(Value(tag_out)) # <<>>
    THEN lstrip_chars(strip(Value(tag_out)), {"v"})
    ELSE DefaultVersion

\* The version a typed line gives.
UserVersion(text, default_version) ==
    IF strip(text) = <<>> THEN default_version ELSE strip(text)

\* get_latest_version_from_git_tag(skip_input = dry_run).  git was
\* started by check_git_status before, so it can be started here.
GetLatestVersionFromGitTag ==
    /\ pc = "get_version"
    /\ \E tag_out \in GitTagOutputs, typed \in Keyboard(VersionEntries) :
          LET default_version == DefaultVersionOf(tag_out)
          IN  /\ tag_query' = (IF IsNone(tag_out) THEN "failed" ELSE "ok")
              /\ latest_tag' = (IF IsNone(tag_out) THEN None
                                ELSE Some(strip(Value(tag_out))))
              /\ IF dry_run
                 THEN /\ version' = default_version
                      /\ pc' = "get_changes"
                      /\ UNCHANGED <<version_entry, interrupt_at, result>>
                 ELSE CASE typed.kind = "KeyboardInterrupt" ->
                             /\ version' = default_version
                             /\ interrupt_at' = "version"
                             /\ pc' = "get_changes"
                             /\ UNCHANGED <<version_entry, result>>
                        [] typed.kind = "EOFError" ->
                             /\ Return("crash")
                             /\ UNCHANGED <<version_entry, version,
                                            interrupt_at>>
                        [] OTHER ->
                             /\ version_entry' = Some(typed.text)
                             /\ version' = UserVersion(typed.text,
                                                       default_version)
                             /\ pc' = "get_changes"
                             /\ UNCHANGED <<interrupt_at, result>>
    /\ UNCHANGED <<inputs, environ, git_config, dch_found, status_vars,
                   debian_dir, log_vars, calls>>

\* What git log --format=%s --no-merges prints for a history: the
\* subject of every commit that is no merge, newest first.  The command
\* names no revision range.
RECURSIVE LogOutput(_)
LogOutput(h) ==
    IF h = <<>> THEN <<>>
    ELSE (IF Head(h).merge THEN <<>> ELSE Head(h).subject \o <<"\n">>)
         \o LogOutput(Tail(h))

\* get_git_changes_since_last_tag, from what git log gave.
GitChangesSinceLastTag(log_out) ==
    IF IsNone(log_out) THEN LogFailedText
    ELSE IF strip(Value(log_out)) = <<>> THEN NoChangesText
    ELSE join(SelectLines(split(strip(Value(log_out)), "\n")), <<"\n">>)

\* A truthy message is used when given: the test  if custom_message.
UsesCustomMessage(message) == Truthy(message)

\* ChangelogLines with the message split into lines like the commit log.
ChangelogLines_SplitMessage(message, log_out) ==
    SelectLines(split(IF UsesCustomMessage(message) THEN Value(message)
                      ELSE GitChangesSinceLastTag(log_out), "\n"))

\* run_dch's changelog_lines.
ChangelogLines(message, log_out) ==
    IF UsesCustomMessage(message) THEN <<Value(message)>>
    ELSE SelectLines(split(GitChangesSinceLastTag(log_out), "\n"))

\* SimulateOnly without the test: the invocations run in simulate mode.
SimulateOnly_Never(simulate) == FALSE

\* The test  if self.dry_run  before the invocations.
SimulateOnly(simulate) == simulate

\* run_dch from the derivation of the change description to the dry-run
\* return: in simulate mode the commands are printed and run_dch
\* returns True.
GetChangelogLines ==
    /\ pc = "get_changes"
    /\ IF UsesCustomMessage(custom_message)
       THEN /\ changelog_lines' = ChangelogLines(custom_message, None)
            /\ UNCHANGED <<log_query, history, tag_at>>
       ELSE \/ /\ log_query' = "failed"
               /\ changelog_lines' = ChangelogLines(custom_message, None)
               /\ UNCHANGED <<history, tag_at>>
            \/ \E h \in Histories, t \in 0..MaxCommits :
                  /\ t <= Len(h)
                  /\ (t = 0) <=> IsNone(latest_tag)
                  /\ log_query' = "ok"
                  /\ history' = h
                  /\ tag_at' = t
                  /\ changelog_lines' =
                        ChangelogLines(custom_message, Some(LogOutput(h)))
    /\ IF SimulateOnly(dry_run)
       THEN Return("success")
       ELSE /\ pc' = (IF changelog_lines' = <<>> THEN "edit" ELSE "append")
            /\ result' = result
    /\ UNCHANGED <<inputs, environ, git_config, dch_found, status_vars,
                   interrupt_at, debian_dir, version_vars, calls>>

\* One dch invocation as run_dch records it.
DchCall(cmd, v, text, outcome) ==
    [cmd |-> cmd, version |-> v, text |-> text, outcome |-> outcome]

\* The line the loop appends next: one invocation per element of
\* changelog_lines, in order.
NextLine == Len(calls) + 1

\* AfterAppend leaving the loop after its first turn.
AfterAppend_Once(n) == "edit"

\* Where run_dch goes after an invocation that succeeded.
AfterAppend(n) == IF n < Len(changelog_lines) THEN "append" ELSE "edit"

\* Raises without check=True: a non-zero exit status goes unnoticed.
Raises_Unchecked(outcome) == outcome = "KeyboardInterrupt"

\* check=True: an invocation that does not end well raises, and run_dch
\* returns False from its except clauses.
Raises(outcome) == outcome # "ok"

\* One turn of the loop  for line in changelog_lines:
\* dch -v version -a line, with check=True.
DchAppend ==
    /\ pc = "append"
    /\ \E outcome \in DchOutcomes :
          /\ calls' = Append(calls, DchCall("append", version,
                                            changelog_lines[NextLine],
                                            outcome))
          /\ IF Raises(outcome)
             THEN /\ Return("failure")
                  /\ interrupt_at' = (IF outcome = "KeyboardInterrupt"
                                      THEN "dch" ELSE interrupt_at)
             ELSE /\ pc' = AfterAppend(NextLine)
                  /\ UNCHANGED <<result, interrupt_at>>
    /\ UNCHANGED <<inputs, environ, git_config, dch_found, status_vars,
                   debian_dir, version_vars, log_vars>>

\* The second step: dch -e, with check=True.
DchEdit ==
    /\ pc = "edit"
    /\ \E outcome \in DchOutcomes :
          /\ calls' = Append(calls, DchCall("edit", <<>>, <<>>, outcome))
          /\ IF Raises(outcome)
             THEN /\ Return("failure")
                  /\ interrupt_at' = (IF outcome = "KeyboardInterrupt"
                                      THEN "dch" ELSE interrupt_at)
             ELSE /\ Return("success")
                  /\ UNCHANGED interrupt_at
    /\ UNCHANGED <<inputs, environ, git_config, dch_found, status_vars,
                   debian_dir, version_vars, log_vars>>

\* ------------------------------------------------------------ specification

Next ==
    \/ CheckDchAvailable
    \/ SetupEnvironmentVariables
    \/ CheckGitStatus
    \/ RunDch
    \/ GetLatestVersionFromGitTag
    \/ GetChangelogLines
    \/ DchAppend
    \/ DchEdit

Spec == Init /\ [][Next]_vars

\* ------------------------------------------------------- terms of the claims

\* The changelog itself is among the dirty files git status reported.
ChangelogDirty == \E i \in 1..Len(dirty) : dirty[i].path = ChangelogPath

\* The typed lines of Answers that are y, yes or the character U+662F,
\* in any case, with blanks around.
AffirmativeAnswers ==
    {<<"y">>, <<" ", "Y", " ">>, <<"Y", "E", "S">>, <<"U+662F">>}

Declined == ~IsNone(response) /\ Value(response) \notin AffirmativeAnswers

\* The run went past check_git_status into run_dch.
ReachedRunDch == pc \in {"run_dch", "get_version", "get_changes", "append",
                         "edit"} \/ debian_dir # "unknown"

\* run_dch has derived the version.
VersionDerived ==
    \/ pc \in {"get_changes", "append", "edit"}
    \/ pc = "done" /\ tag_query # "none" /\ result # "crash"

\* run_dch has derived the change description.
DescriptionDerived ==
    \/ pc \in {"append", "edit"}
    \/ pc = "done" /\ VersionDerived /\ (dry_run \/ calls # <<>>)

\* A tag with exactly one leading v removed.
WithoutOneV(tag) == IF tag # <<>> /\ Head(tag) = "v" THEN Tail(tag) ELSE tag

\* The subjects of the commits that are no merge and not blank, in order.
RECURSIVE SubjectsOf(_)
SubjectsOf(h) ==
    IF h = <<>> THEN <<>>
    ELSE (IF ~Head(h).merge /\ Head(h).subject # <<>>
          THEN <<Head(h).subject>> ELSE <<>>)
         \o SubjectsOf(Tail(h))

\* The commits made after the latest reachable tag: all of them when
\* there is no tag.
SinceLastTag == IF tag_at = 0 THEN history ELSE SubSeq(history, 1, tag_at - 1)

AppendCalls == {i \in 1..Len(calls) : calls[i].cmd = "append"}

\* --------------------------------------------------------------------- C1

\* C1 as stated: in simulate mode run never invokes dch and always
\* returns success.
C1_SimulateAlwaysSucceeds ==
    dry_run => /\ calls = <<>>
               /\ pc = "done" => result = "success"

\* C1, amended: in simulate mode run never invokes dch, and it returns
\* success whenever it gets past its three checks (dch on the path, the
\* status check, the debian directory); it returns failure only where
\* one of them fails.
C1_SimulateNeverInvokes ==
    dry_run =>
        /\ calls = <<>>
        /\ pc = "done" /\ debian_dir = "yes" => result = "success"
        /\ pc = "done" /\ result = "success" =>
              dch_found = "yes" /\ debian_dir = "yes"
        /\ pc = "done" /\ result = "failure" =>
              \/ dch_found = "no"
              \/ changelog_modified
              \/ prompted /\ (Declined \/ interrupt_at = "confirm")
              \/ debian_dir = "no"

C1_Witness ==
    /\ dry_run
    /\ pc = "done"
    /\ result = "success"
    /\ prompted
    /\ IsNone(custom_message)
    /\ Len(changelog_lines) = 2

\* --------------------------------------------------------------------- C2

\* C2: when git status reports the changelog as modified, run returns
\* failure without showing a prompt and without any dch invocation.
C2_DirtyChangelogAborts ==
    status_query = "ok" /\ ChangelogDirty =>
        /\ pc = "done"
        /\ result = "failure"
        /\ ~prompted
        /\ IsNone(response)
        /\ IsNone(version_entry)
        /\ calls = <<>>

C2_Witness ==
    /\ status_query = "ok"
    /\ ChangelogDirty
    /\ Len(dirty) = 2
    /\ dirty[2].path = ChangelogPath
    /\ Truthy(custom_message)
    /\ ~dry_run
    /\ result = "failure"

\* --------------------------------------------------------------------- C3

\* C3: with dirty files other than the changelog and the changelog not
\* dirty, the run asks for confirmation; an answer that is not an
\* accepted yes gives failure and no dch invocation; an accepted yes
\* lets the run go on to run_dch.
C3_OtherDirtyAsksConfirmation ==
    status_query = "ok" /\ dirty # <<>> /\ ~ChangelogDirty =>
        /\ prompted
        /\ Declined => pc = "done" /\ result = "failure" /\ calls = <<>>
        /\ ~IsNone(response) /\ ~Declined => ReachedRunDch

\* --------------------------------------------------------------------- C4

\* C4 as stated: for every message given, the empty one too, the commit
\* log is not queried and the text appended is the message.
C4_AnyMessageBypassesLog ==
    ~IsNone(custom_message) =>
        /\ log_query = "none"
        /\ \A i \in AppendCalls : calls[i].text = Value(custom_message)

\* C4, amended: for every message given that is not empty, the commit
\* log is not queried and the one append invocation carries exactly the
\* message, line breaks and all.
C4_MessageBypassesLog ==
    Truthy(custom_message) =>
        /\ log_query = "none"
        /\ history = <<>>
        /\ DescriptionDerived => changelog_lines = <<Value(custom_message)>>
        /\ Cardinality(AppendCalls) <= 1
        /\ \A i \in AppendCalls : calls[i].text = Value(custom_message)

C4_Witness ==
    /\ custom_message = Some(<<"a", "\n", "b">>)
    /\ pc = "done"
    /\ result = "success"
    /\ Len(calls) = 2
    /\ calls[1].text = <<"a", "\n", "b">>

\* --------------------------------------------------------------------- C5

\* C5: without a message, the description is exactly the subjects (no
\* merges, none blank) of the commits after the latest reachable tag;
\* with a tag and no commit after it, empty or the placeholder; the full
\* history only when there is no tag.
C5_DescriptionSinceLastTag ==
    DescriptionDerived /\ log_query = "ok" =>
        IF SubjectsOf(SinceLastTag) = <<>>
        THEN changelog_lines \in {<<>>, <<NoChangesText>>}
        ELSE changelog_lines = SubjectsOf(SinceLastTag)

\* --------------------------------------------------------------------- C6

\* C6: the default version is the latest tag with exactly one leading v
\* removed, 1.0.0 without a tag; it is the version in simulate mode and
\* when nothing is typed, and a typed version replaces it.
C6_DefaultVersion ==
    VersionDerived /\ (dry_run \/ ~IsNone(version_entry)) =>
        IF ~dry_run /\ strip(Value(version_entry)) # <<>>
        THEN version = strip(Value(version_entry))
        ELSE version = (IF tag_query = "ok"
                        THEN WithoutOneV(Value(latest_tag))
                        ELSE DefaultVersion)

\* --------------------------------------------------------------------- C7

\* C7: an interrupt at the confirmation prompt, at the version prompt or
\* during a dch invocation makes the run return failure, and no dch
\* invocation is started after it.
C7_InterruptAborts ==
    /\ interrupt_at # "none" /\ pc = "done" => result = "failure"
    /\ interrupt_at \in {"confirm", "version"} => calls = <<>>
    /\ \A i \in 1..Len(calls) :
          calls[i].outcome = "KeyboardInterrupt" => i = Len(calls)

\* --------------------------------------------------------------------- C8

\* What git config printed, without the line end.
Configured(out) == SubSeq(out, 1, Len(out) - 1)

\* setup_environment_variables ran to its end in this step.
SetupStep == pc = "setup_env" /\ pc' = "check_git_status"

\* C8 as stated: a variable that is present, with any value, the empty
\* one too, keeps its value; an absent one gets the configured value or
\* the placeholder; afterwards both are set.
C8_PresentKeepsValue ==
    [][SetupStep =>
          /\ environ'.DEBEMAIL =
                (IF ~IsNone(environ.DEBEMAIL) THEN environ.DEBEMAIL
                 ELSE IF IsNone(Value(git_config').email)
                 THEN Some(UnknownEmail)
                 ELSE Some(Configured(Value(Value(git_config').email))))
          /\ environ'.DEBFULLNAME =
                (IF ~IsNone(environ.DEBFULLNAME) THEN environ.DEBFULLNAME
                 ELSE IF IsNone(Value(git_config').name)
                 THEN Some(UnknownName)
                 ELSE Some(Configured(Value(Value(git_config').name))))
          /\ ~IsNone(environ'.DEBEMAIL)
          /\ ~IsNone(environ'.DEBFULLNAME)]_vars

\* C8, amended: each variable on its own: present with a value that is
\* not empty, it keeps its value; absent or empty, it gets the value git
\* config gives, or the placeholder when that query fails; when the step
\* ends both are set.
C8_NonEmptyKeepsValue ==
    [][SetupStep =>
          /\ environ'.DEBEMAIL =
                (IF Truthy(environ.DEBEMAIL) THEN environ.DEBEMAIL
                 ELSE IF IsNone(Value(git_config').email)
                 THEN Some(UnknownEmail)
                 ELSE Some(Configured(Value(Value(git_config').email))))
          /\ environ'.DEBFULLNAME =
                (IF Truthy(environ.DEBFULLNAME) THEN environ.DEBFULLNAME
                 ELSE IF IsNone(Value(git_config').name)
                 THEN Some(UnknownName)
                 ELSE Some(Configured(Value(Value(git_config').name))))
          /\ ~IsNone(environ'.DEBEMAIL)
          /\ ~IsNone(environ'.DEBFULLNAME)]_vars

C8_Witness ==
    /\ pc = "check_git_status"
    /\ ~IsNone(git_config)
    /\ IsNone(Value(git_config).name)
    /\ environ.DEBEMAIL = Some(PresetEmail)
    /\ environ.DEBFULLNAME = Some(UnknownName)

\* --------------------------------------------------------------------- C9

\* A run outside simulate mode in which every dch invocation succeeded.
AllInvocationsSucceeded == ~dry_run /\ pc = "done" /\ result = "success"

\* C9 as stated: such a run invokes dch exactly twice, one append and
\* then one edit, however many lines the description has.
C9_ExactlyTwoInvocations ==
    AllInvocationsSucceeded =>
        /\ Len(calls) = 2
        /\ calls[1].cmd = "append"
        /\ calls[2].cmd = "edit"

\* C9, amended: such a run invokes dch once for each line of the
\* description, in order, each a non-interactive append carrying the
\* version and that line, and then once for the interactive edit: n + 1
\* invocations for n lines, n at least 1.
C9_OneAppendPerLineThenEdit ==
    AllInvocationsSucceeded =>
        /\ changelog_lines # <<>>
        /\ Len(calls) = Len(changelog_lines) + 1
        /\ \A i \in 1..Len(changelog_lines) :
              calls[i] = DchCall("append", version, changelog_lines[i], "ok")
        /\ calls[Len(calls)] = DchCall("edit", <<>>, <<>>, "ok")

C9_Witness ==
    /\ AllInvocationsSucceeded
    /\ Len(changelog_lines) = 2
    /\ Len(calls) = 3
    /\ calls[2].cmd = "append"
    /\ calls[3].cmd = "edit"

\* -------------------------------------------------------------------- C10

\* C10: an invocation that fails is the last one and run_dch returns
\* failure; the appends before it succeeded and stay; the edit starts
\* only after every line was appended; every append carries the run's
\* version and its own line.
C10_FailureStopsInvocations ==
    /\ \A i \in 1..Len(calls) :
          calls[i].outcome # "ok" =>
             /\ i = Len(calls)
             /\ pc = "done"
             /\ result = "failure"
             /\ \A j \in 1..(i - 1) :
                   calls[j] = DchCall("append", version,
                                      changelog_lines[j], "ok")
    /\ \A i \in 1..Len(calls) :
          calls[i].cmd = "edit" =>
             /\ i = Len(changelog_lines) + 1
             /\ \A j \in 1..(i - 1) :
                   calls[j].cmd = "append" /\ calls[j].outcome = "ok"
    /\ \A i \in AppendCalls :
          /\ i <= Len(changelog_lines)
          /\ calls[i].version = version
          /\ calls[i].text = changelog_lines[i]

C10_Witness ==
    /\ Len(changelog_lines) = 2
    /\ Len(calls) = 2
    /\ calls[1] = DchCall("append", version, changelog_lines[1], "ok")
    /\ calls[2].cmd = "append"
    /\ calls[2].outcome = "CalledProcessError"
    /\ pc = "done"
    /\ result = "failure"

====
